---- MODULE Spec2Model ----
(***************************************************************************)
(* Transformation estimation of the tensor registration pipeline           *)
(* (TransformationEstimation.cpp): the three estimators PointToPoint,      *)
(* PointToPlane and ForColoredICP, each with ComputeRMSE and               *)
(* ComputeTransformation, over a source cloud, a target cloud and a        *)
(* correspondence tensor.                                                  *)
(*                                                                         *)
(* Numbers are exact integers: a coordinate, a normal component, a colour  *)
(* channel and a gradient component are integers in a fixed-point unit, so *)
(* sums and products are exact and floating-point rounding is not          *)
(* modelled.  A square root is kept symbolic: a result "value" with        *)
(* root = TRUE stands for sqrt(num / den).                                 *)
(*                                                                         *)
(* The second part is the attribute store of a line set (LineSet.h): the   *)
(* two tensor maps point_attr_ and line_attr_ on the device device_, with  *)
(* their setters, removers, Clear and existence queries.                   *)
(***************************************************************************)
EXTENDS Integers, Sequences, FiniteSets, TLC

VARIABLES source, target, corr, out, appended,
          device_, point_attr_, line_attr_, ret

vars == <<source, target, corr, out, appended>>

\* The line set: its device, its two attribute maps, and what the last call
\* on it was given and returned.
lsvars == <<device_, point_attr_, line_attr_, ret>>

\* Longest source cloud and longest target cloud of the geometry inputs.
MaxSrc == 2
MaxTgt == 2

\* Most places at which an input of the validation family departs from a
\* well-formed one.
MaxDepartures == 2

-----------------------------------------------------------------------------
(* Small helpers on integers and sequences.                                *)

RECURSIVE SeqSum(_)
SeqSum(s) == IF s = <<>> THEN 0 ELSE Head(s) + SeqSum(Tail(s))

Max2(a, b) == IF a >= b THEN a ELSE b

SeqsUpTo(S, n) == UNION {[1..k -> S] : k \in 0..n}

-----------------------------------------------------------------------------
(* core::Tensor values as the estimators use them.  A tensor handle has a  *)
(* shape (<<>>, <<n>> or <<n, 3>>), its data (a number, a sequence of      *)
(* numbers, or a sequence of rows), a dtype, a device, and the storage it  *)
(* lives in: "temp" for freshly allocated storage, or <<cloud, key>> for   *)
(* the storage of an attribute of an input (a handle returned by a getter  *)
(* shares the attribute's storage).  err # "" marks an operation that      *)
(* threw; "UB" marks an out-of-bounds or cross-device read, which the      *)
(* library does not check.                                                 *)

Temp == <<"temp">>

Tensor(shape, data, dtype, device, owner) ==
    [err |-> "", shape |-> shape, data |-> data, dtype |-> dtype,
     device |-> device, owner |-> owner]

Failed(e) ==
    [err |-> e, shape |-> <<>>, data |-> 0, dtype |-> "", device |-> "",
     owner |-> Temp]

FirstErr(a, b) == IF a.err # "" THEN a.err ELSE b.err

Rank(t) == Len(t.shape)

GetLength(t) == t.shape[1]

\* Element (i, j) of t seen as a two-dimensional tensor (leading dimensions
\* of size 1 added on the left, as broadcasting does).
Elem(t, i, j) ==
    CASE Rank(t) = 0 -> t.data
      [] Rank(t) = 1 -> t.data[IF t.shape[1] = 1 THEN 1 ELSE j]
      [] OTHER -> t.data[IF t.shape[1] = 1 THEN 1 ELSE i]
                        [IF t.shape[2] = 1 THEN 1 ELSE j]

Pad(shape) ==
    CASE Len(shape) = 0 -> <<1, 1>>
      [] Len(shape) = 1 -> <<1, shape[1]>>
      [] OTHER -> shape

DimOK(l, r) == l = r \/ l = 1 \/ r = 1

DimOut(l, r) == IF l = 0 \/ r = 0 THEN 0 ELSE Max2(l, r)

IsCompatibleBroadcastShape(ls, rs) ==
    DimOK(Pad(ls)[1], Pad(rs)[1]) /\ DimOK(Pad(ls)[2], Pad(rs)[2])

\* Shaped data of `rank` dimensions from the elements f[i, j].
Build(rank, rows, cols, f) ==
    CASE rank = 0 -> f[1, 1]
      [] rank = 1 -> [j \in 1..cols |-> f[1, j]]
      [] OTHER -> [i \in 1..rows |-> [j \in 1..cols |-> f[i, j]]]

OutShape(rank, rows, cols) ==
    CASE rank = 0 -> <<>>
      [] rank = 1 -> <<cols>>
      [] OTHER -> <<rows, cols>>

\* The scalar operation of an element-wise tensor operation.
Apply(op, x, y) ==
    CASE op = "-" -> x - y
      [] op = "*" -> x * y
      [] OTHER -> x + y

\* Element-wise binary operation with broadcasting, into new storage.
BinaryEW(a, b, op) ==
    IF a.err # "" \/ b.err # "" THEN Failed(FirstErr(a, b))
    ELSE IF ~IsCompatibleBroadcastShape(a.shape, b.shape)
    THEN Failed("ShapeError")
    ELSE LET rank == Max2(Rank(a), Rank(b))
             rows == DimOut(Pad(a.shape)[1], Pad(b.shape)[1])
             cols == DimOut(Pad(a.shape)[2], Pad(b.shape)[2])
             f == [i \in 1..rows, j \in 1..cols |->
                      Apply(op, Elem(a, i, j), Elem(b, i, j))]
         IN  Tensor(OutShape(rank, rows, cols), Build(rank, rows, cols, f),
                    a.dtype, a.device, Temp)

\* Element-wise binary operation in place: the result is written to the
\* storage of a, whose shape must be the broadcast shape.
BinaryEW_(a, b, op) ==
    LET r == BinaryEW(a, b, op)
    IN  IF r.err # "" THEN r
        ELSE IF r.shape # a.shape THEN Failed("ShapeError")
        ELSE [r EXCEPT !.owner = a.owner]

Sub(a, b) == BinaryEW(a, b, "-")
Mul(a, b) == BinaryEW(a, b, "*")
Add(a, b) == BinaryEW(a, b, "+")
Sub_(a, b) == BinaryEW_(a, b, "-")
Mul_(a, b) == BinaryEW_(a, b, "*")
Add_(a, b) == BinaryEW_(a, b, "+")

\* Tensor times a C++ double.
MulScalar(a, k) ==
    IF a.err # "" THEN a
    ELSE LET rows == Pad(a.shape)[1]
             cols == Pad(a.shape)[2]
             f == [i \in 1..rows, j \in 1..cols |-> Elem(a, i, j) * k]
         IN  Tensor(a.shape, Build(Rank(a), rows, cols, f),
                    a.dtype, a.device, Temp)

\* Sum over the dimensions dims (0-based); a dimension the tensor does not
\* have is an error.
Sum(a, dims) ==
    IF a.err # "" THEN a
    ELSE IF \E d \in dims : d >= Rank(a) THEN Failed("IndexError")
    ELSE LET rows == Pad(a.shape)[1]
             cols == Pad(a.shape)[2]
             RowSum(i) == SeqSum([j \in 1..cols |-> Elem(a, i, j)])
             ColSum(j) == SeqSum([i \in 1..rows |-> Elem(a, i, j)])
             All == SeqSum([i \in 1..rows |-> RowSum(i)])
         IN  CASE Rank(a) = 2 /\ dims = {0, 1} ->
                      Tensor(<<>>, All, a.dtype, a.device, Temp)
               [] Rank(a) = 2 /\ dims = {1} ->
                      Tensor(<<rows>>, [i \in 1..rows |-> RowSum(i)],
                             a.dtype, a.device, Temp)
               [] Rank(a) = 2 /\ dims = {0} ->
                      Tensor(<<cols>>, [j \in 1..cols |-> ColSum(j)],
                             a.dtype, a.device, Temp)
               [] Rank(a) = 1 /\ dims = {0} ->
                      Tensor(<<>>, All, a.dtype, a.device, Temp)
               [] OTHER -> [a EXCEPT !.owner = Temp]

\* Mean over the dimensions dims.  The inputs keep every row sum of a
\* colour tensor a multiple of the channel count, so the mean is exact.
Mean(a, dims) ==
    LET s == Sum(a, dims)
    IN  IF s.err # "" THEN s
        ELSE IF dims = {1} /\ Rank(a) = 2 /\ a.shape[2] > 0
        THEN [s EXCEPT !.data = [i \in 1..Len(s.data) |->
                                     s.data[i] \div a.shape[2]]]
        ELSE s

\* correspondences.Ne(v): a Bool tensor of the same shape.
Ne(a, v) ==
    IF a.err # "" THEN a
    ELSE Tensor(a.shape, [i \in 1..GetLength(a) |-> a.data[i] # v],
                "Bool", a.device, Temp)

\* The positions at which a Bool tensor is true, 0-based, in order.
RECURSIVE NonZeroFrom(_, _)
NonZeroFrom(mask, i) ==
    IF i > Len(mask) THEN <<>>
    ELSE (IF mask[i] THEN <<i - 1>> ELSE <<>>) \o NonZeroFrom(mask, i + 1)

NonZero(mask) == NonZeroFrom(mask, 1)

\* a.IndexGet({index}): the rows of a that index selects, copied into new
\* storage.  A Bool index selects the rows at which it is true; any other
\* index must be Int64.  A negative index counts from the end.  An index
\* outside the tensor, or an index tensor on another device, is not checked
\* and reads memory the tensor does not own.
IndexGet(a, index) ==
    IF a.err # "" \/ index.err # "" THEN Failed(FirstErr(a, index))
    ELSE IF index.dtype # "Bool" /\ index.dtype # "Int64"
    THEN Failed("IndexDtypeError")
    ELSE IF index.device # a.device THEN Failed("UB")
    ELSE LET idx == IF index.dtype = "Bool" THEN NonZero(index.data)
                    ELSE index.data
             n == GetLength(a)
             Wrap(k) == IF k < 0 THEN k + n ELSE k
         IN  IF \E i \in 1..Len(idx) : idx[i] < -n \/ idx[i] >= n
             THEN Failed("UB")
             ELSE Tensor(<<Len(idx)>> \o Tail(a.shape),
                         [i \in 1..Len(idx) |-> a.data[Wrap(idx[i]) + 1]],
                         a.dtype, a.device, Temp)

-----------------------------------------------------------------------------
(* geometry::PointCloud as the estimators see it: a device and a map from  *)
(* attribute key to a tensor of rows [dtype, data].                        *)

AttrTensor(dtype, data) == [dtype |-> dtype, data |-> data]

\* A handle on attribute key of cloud pc (named `name`); it shares the
\* attribute's storage.  A missing key throws.
GetPointAttr(name, pc, key) ==
    IF key \notin DOMAIN pc.attr THEN Failed("KeyError")
    ELSE Tensor(<<Len(pc.attr[key].data), 3>>, pc.attr[key].data,
                pc.attr[key].dtype, pc.device, <<name, key>>)

GetPoints(name, pc) == GetPointAttr(name, pc, "points")
GetPointNormals(name, pc) == GetPointAttr(name, pc, "normals")
GetPointColors(name, pc) == GetPointAttr(name, pc, "colors")

\* An attribute is valid when present, non-empty and as long as "points".
PointCloud_HasPointAttr(pc, key) ==
    /\ key \in DOMAIN pc.attr
    /\ Len(pc.attr[key].data) > 0
    /\ Len(pc.attr[key].data) = Len(pc.attr["points"].data)

HasPointNormals(pc) == PointCloud_HasPointAttr(pc, "normals")
HasPointColors(pc) == PointCloud_HasPointAttr(pc, "colors")

\* The correspondence tensor [dtype, device, data] as a one-dimensional
\* tensor handle.
CorrTensor(c) == Tensor(<<Len(c.data)>>, c.data, c.dtype, c.device, <<"corr">>)

-----------------------------------------------------------------------------
(* Outcomes of a call.  work says how far the call got before it ended:    *)
(* "none" (it ended in the estimator's own checks), "kernel" (it ended in  *)
(* the checks of the kernel it called) or "numeric" (tensors were          *)
(* computed).                                                              *)

Outcome(op, kind, err, work, root, num, den, solver, pairs) ==
    [op |-> op, kind |-> kind, err |-> err, work |-> work, root |-> root,
     num |-> num, den |-> den, solver |-> solver, pairs |-> pairs]

\* The solver a kernel ran and the converter applied to its solution.
Solver(name, kernel, lambda, conv) ==
    [name |-> name, kernel |-> kernel, lambda |-> lambda, conv |-> conv]

NoLambda == [num |-> 0, den |-> 1]

NoSolver == Solver("", "", NoLambda, "")

NoCall == Outcome("none", "none", "", "none", FALSE, 0, 1, NoSolver, <<>>)

Error(op, err, work) ==
    Outcome(op, "error", err, work, FALSE, 0, 1, NoSolver, <<>>)

\* An unchecked read outside a tensor: the process dies or goes on with
\* whatever the memory held.
Undefined(op) ==
    {Outcome(op, "crash", "", "numeric", FALSE, 0, 1, NoSolver, <<>>),
     Outcome(op, "garbage", "", "numeric", FALSE, 0, 1, NoSolver, <<>>)}

\* What a failed tensor operation makes of the call.
Thrown(op, err) ==
    IF err = "UB" THEN Undefined(op) ELSE {Error(op, err, "numeric")}

\* A C++ double num / den, under a square root when root: 0.0 / 0.0 is NaN.
Double(op, root, num, den) ==
    IF den = 0
    THEN Outcome(op, "nan", "", "numeric", root, 0, 0, NoSolver, <<>>)
    ELSE Outcome(op, "value", "", "numeric", root, num, den, NoSolver, <<>>)

NoWrite == [owner |-> Temp, data |-> <<>>]

\* What an in-place operation left in storage: a write to an input when the
\* storage is not a temporary.
WriteOf(t) ==
    IF t.err # "" THEN NoWrite ELSE [owner |-> t.owner, data |-> t.data]

Result(o, w) == [out |-> o, write |-> w]

Results(outs) == {Result(o, NoWrite) : o \in outs}

\* Cloud pc (named `name`) after the write w.
Written(name, pc, w) ==
    IF Len(w.owner) = 2 /\ w.owner[1] = name
    THEN [pc EXCEPT !.attr[w.owner[2]].data = w.data]
    ELSE pc

CorrWritten(c, w) ==
    IF w.owner = <<"corr">> THEN [c EXCEPT !.data = w.data] ELSE c

-----------------------------------------------------------------------------
(* Steps shared by the three ComputeRMSE.                                  *)

\* ValidMask without the sentinel test: every entry counts as a
\* correspondence.
ValidMaskAll(correspondences) ==
    IF correspondences.err # "" THEN correspondences
    ELSE Tensor(correspondences.shape,
                [i \in 1..GetLength(correspondences) |-> TRUE],
                "Bool", correspondences.device, Temp)

\* valid = correspondences.Ne(-1).Reshape({-1})
ValidMask(correspondences) == Ne(correspondences, -1)

\* neighbour_indices = correspondences.IndexGet({valid}).Reshape({-1})
NeighbourIndices(correspondences, valid) == IndexGet(correspondences, valid)

\* std::sqrt(error / static_cast<double>(neighbour_indices.GetLength()))
RootMeanOf(op, error, neighbour_indices) ==
    Double(op, TRUE, error.data, GetLength(neighbour_indices))

-----------------------------------------------------------------------------
(* TransformationEstimationPointToPoint                                    *)

\* PtP_ErrorT without the gather of the source: the difference is taken in
\* place in the source's own points.
PtP_ErrorT_InPlace(src, tgt, valid, neighbour_indices) ==
    Sub_(GetPoints("source", src),
         IndexGet(GetPoints("target", tgt), neighbour_indices))

\* error_t = source_points_indexed - target_points_indexed, of the gathered
\* source and target points.
PtP_ErrorT(src, tgt, valid, neighbour_indices) ==
    LET source_points_indexed == IndexGet(GetPoints("source", src), valid)
        target_points_indexed ==
            IndexGet(GetPoints("target", tgt), neighbour_indices)
    IN  Sub(source_points_indexed, target_points_indexed)

\* PtP_Squared without the multiplication: the differences stay unsquared.
PtP_NotSquared(error_t) == error_t

\* error_t.Mul_(error_t)
PtP_Squared(error_t) == Mul_(error_t, error_t)

PtP_ComputeRMSE(src, tgt, c) ==
    LET op == "PtP_RMSE"
        correspondences == CorrTensor(c)
    IN  IF GetPoints("target", tgt).dtype # GetPoints("source", src).dtype
        THEN Results({Error(op, "DtypeMismatch", "none")})
        ELSE IF tgt.device # src.device
        THEN Results({Error(op, "DeviceMismatch", "none")})
        ELSE LET valid == ValidMask(correspondences)
                 neighbour_indices == NeighbourIndices(correspondences, valid)
                 error_t ==
                     PtP_Squared(PtP_ErrorT(src, tgt, valid, neighbour_indices))
                 error == Sum(error_t, {0, 1})
             IN  IF error.err # "" THEN Results(Thrown(op, error.err))
                 ELSE {Result(RootMeanOf(op, error, neighbour_indices),
                              WriteOf(error_t))}

-----------------------------------------------------------------------------
(* The kernels of pipelines::kernel and the converters to a 4 x 4          *)
(* transformation.  A kernel checks its tensors, gathers the matched rows  *)
(* and solves over them; the solution is kept abstract, as the solver and  *)
(* the matched rows it was given.                                          *)

\* The error of the first tensor, in program order, whose computation threw.
FirstFailure(ts) ==
    LET bad == {i \in 1..Len(ts) : ts[i].err # ""}
    IN  IF bad = {} THEN ""
        ELSE ts[CHOOSE i \in bad : \A j \in bad : i <= j].err

Solve(op, solver, source_attrs, target_attrs, correspondences) ==
    LET floats == source_attrs \o target_attrs
        dtype == floats[1].dtype
        device == floats[1].device
    IN  IF \/ \E i \in 1..Len(floats) : floats[i].device # device
           \/ correspondences.device # device
        THEN {Error(op, "DeviceMismatch", "kernel")}
        ELSE IF \/ \E i \in 1..Len(floats) : floats[i].dtype # dtype
                \/ correspondences.dtype # "Int64"
        THEN {Error(op, "DtypeMismatch", "kernel")}
        ELSE IF GetLength(correspondences) # GetLength(floats[1])
        THEN {Error(op, "DimensionError", "kernel")}
        ELSE LET valid == ValidMask(correspondences)
                 neighbour_indices == NeighbourIndices(correspondences, valid)
                 gathered ==
                     [k \in 1..Len(floats) |->
                         IF k <= Len(source_attrs)
                         THEN IndexGet(floats[k], valid)
                         ELSE IndexGet(floats[k], neighbour_indices)]
                 failure == FirstFailure(gathered)
                 n == GetLength(neighbour_indices)
             IN  IF failure # "" THEN Thrown(op, failure)
                 ELSE IF n = 0
                 THEN {Error(op, "EmptyCorrespondenceError", "kernel")}
                 ELSE {Outcome(op, "solution", "", "numeric", FALSE, 0, 1,
                               solver,
                               [i \in 1..n |->
                                   [k \in 1..Len(gathered) |->
                                       gathered[k].data[i]]])}

ComputeRtPointToPoint(op, source_points, target_points, correspondences) ==
    Solve(op, Solver("RtPointToPoint", "", NoLambda, ""), <<source_points>>,
          <<target_points>>, correspondences)

ComputePosePointToPlane(op, source_points, target_points, target_normals, correspondences, kernel) ==
    Solve(op, Solver("PosePointToPlane", kernel, NoLambda, ""),
          <<source_points>>,
          <<target_points, target_normals>>, correspondences)

ComputePoseColoredICP(op, source_points, source_colors, target_points, target_normals, target_colors, target_color_gradients, correspondences, kernel, lambda_geometric) ==
    Solve(op, Solver("PoseColoredICP", kernel, lambda_geometric, ""),
          <<source_points, source_colors>>,
          <<target_points, target_normals, target_colors,
            target_color_gradients>>, correspondences)

\* The transformation of a kernel's solution; a kernel that threw stays
\* thrown.
ToTransformation(conv, outs) ==
    {IF o.kind = "solution"
     THEN [o EXCEPT !.kind = "transform", !.solver.conv = conv]
     ELSE o : o \in outs}

RtToTransformation(outs) == ToTransformation("RtToTransformation", outs)
PoseToTransformation(outs) == ToTransformation("PoseToTransformation", outs)

\* The configuration the estimators are constructed with: the robust kernel
\* and lambda_geometric (16/25, whose square root and whose complement's
\* square root are both rational).
kernel_ == "L2Loss"
lambda_geometric_ == [num |-> 16, den |-> 25]

\* sqrt of a rational whose numerator and denominator are perfect squares.
Sqrt(q) ==
    [num |-> CHOOSE r \in 0..q.num : r * r = q.num,
     den |-> CHOOSE r \in 0..q.den : r * r = q.den]

PtP_ComputeTransformation(src, tgt, c) ==
    Results(RtToTransformation(
        ComputeRtPointToPoint("PtP_Transformation", GetPoints("source", src),
                              GetPoints("target", tgt), CorrTensor(c))))

-----------------------------------------------------------------------------
(* TransformationEstimationPointToPlane                                    *)

\* PtPl_MissingNormals testing the key alone, not the validity.
PtPl_MissingNormalsKey(tgt) == "normals" \notin DOMAIN tgt.attr

\* if (!target.HasPointNormals())
PtPl_MissingNormals(tgt) == ~HasPointNormals(tgt)

\* error_t = (source_points_indexed - target_points_indexed)
\*                   .Mul_(target_normals_indexed); error_t.Mul_(error_t)
PtPl_ErrorT(source_points_indexed, target_points_indexed, target_normals_indexed) ==
    LET error_t == Mul_(Sub(source_points_indexed, target_points_indexed),
                        target_normals_indexed)
    IN  Mul_(error_t, error_t)

PtPl_ComputeRMSE(src, tgt, c) ==
    LET op == "PtPl_RMSE"
        correspondences == CorrTensor(c)
        device == src.device
        dtype == GetPoints("source", src).dtype
    IN  IF PtPl_MissingNormals(tgt)
        THEN Results({Error(op, "MissingAttribute", "none")})
        ELSE IF GetPoints("target", tgt).device # device
                \/ correspondences.device # device
        THEN Results({Error(op, "DeviceMismatch", "none")})
        ELSE IF \/ GetPoints("target", tgt).dtype # dtype
                \/ GetPointNormals("target", tgt).dtype # dtype
                \/ correspondences.dtype # "Int64"
        THEN Results({Error(op, "DtypeMismatch", "none")})
        ELSE LET valid == ValidMask(correspondences)
                 neighbour_indices == NeighbourIndices(correspondences, valid)
                 source_points_indexed ==
                     IndexGet(GetPoints("source", src), valid)
                 target_points_indexed ==
                     IndexGet(GetPoints("target", tgt), neighbour_indices)
                 target_normals_indexed ==
                     IndexGet(GetPointNormals("target", tgt),
                              neighbour_indices)
                 error_t == PtPl_ErrorT(source_points_indexed,
                                        target_points_indexed,
                                        target_normals_indexed)
                 error == Sum(error_t, {0, 1})
                 failure == FirstFailure(<<source_points_indexed,
                                           target_points_indexed,
                                           target_normals_indexed,
                                           error_t, error>>)
             IN  IF failure # "" THEN Results(Thrown(op, failure))
                 ELSE {Result(RootMeanOf(op, error, neighbour_indices),
                              WriteOf(error_t))}

PtPl_ComputeTransformation(src, tgt, c) ==
    LET op == "PtPl_Transformation"
    IN  IF PtPl_MissingNormals(tgt)
        THEN Results({Error(op, "MissingAttribute", "none")})
        ELSE Results(PoseToTransformation(
                 ComputePosePointToPlane(op, GetPoints("source", src),
                                         GetPoints("target", tgt),
                                         GetPointNormals("target", tgt),
                                         CorrTensor(c), kernel_)))

-----------------------------------------------------------------------------
(* TransformationEstimationForColoredICP                                   *)

\* The three attribute checks that open both operations.
Colored_MissingAttribute(src, tgt) ==
    \/ ~HasPointColors(tgt) \/ ~HasPointColors(src)
    \/ ~HasPointNormals(tgt)
    \/ ~PointCloud_HasPointAttr(tgt, "color_gradients")

Colored_ComputeRMSE(src, tgt, c) ==
    LET op == "Colored_RMSE"
        correspondences == CorrTensor(c)
        device == GetPoints("source", src).device
        dtype == GetPoints("source", src).dtype
    IN  IF Colored_MissingAttribute(src, tgt)
        THEN Results({Error(op, "MissingAttribute", "none")})
        ELSE IF GetPoints("target", tgt).device # device
                \/ correspondences.device # device
        THEN Results({Error(op, "DeviceMismatch", "none")})
        ELSE IF \/ GetPointColors("source", src).dtype # dtype
                \/ GetPoints("target", tgt).dtype # dtype
                \/ GetPointNormals("target", tgt).dtype # dtype
                \/ GetPointColors("target", tgt).dtype # dtype
                \/ GetPointAttr("target", tgt, "color_gradients").dtype # dtype
                \/ correspondences.dtype # "Int64"
        THEN Results({Error(op, "DtypeMismatch", "none")})
        ELSE LET sqrt_lambda_geometric == Sqrt(lambda_geometric_)
                 lambda_photometric ==
                     [num |-> lambda_geometric_.den - lambda_geometric_.num,
                      den |-> lambda_geometric_.den]
                 sqrt_lambda_photometric == Sqrt(lambda_photometric)
                 valid == ValidMask(correspondences)
                 neighbour_indices == NeighbourIndices(correspondences, valid)
                 vs == IndexGet(GetPoints("source", src), valid)
                 cs == IndexGet(GetPointColors("source", src), valid)
                 vt == IndexGet(GetPoints("target", tgt), neighbour_indices)
                 nt == IndexGet(GetPointNormals("target", tgt),
                                neighbour_indices)
                 ct == IndexGet(GetPointColors("target", tgt),
                                neighbour_indices)
                 dit == IndexGet(GetPointAttr("target", tgt, "color_gradients"),
                                 neighbour_indices)
                 d == Sum(Mul(Sub(vs, vt), nt), {1})
                 vs_proj == Sub(vs, Mul(d, nt))
                 is == Mean(cs, {1})
                 it == Mean(ct, {1})
                 is_proj == Add(Sum(Mul(dit, Sub(vs_proj, vt)), {1}), it)
                 residual_geometric ==
                     Sum(MulScalar(d, sqrt_lambda_geometric.num), {1})
                 sq_residual_geometric ==
                     Mul(residual_geometric, residual_geometric)
                 residual_photometric ==
                     Sum(MulScalar(Sub(is, is_proj),
                                   sqrt_lambda_photometric.num), {1})
                 sq_residual_photometric ==
                     Mul(residual_photometric, residual_photometric)
                 total == Add_(sq_residual_geometric, sq_residual_photometric)
                 residual == Sum(total, {0})
                 failure ==
                     FirstFailure(<<vs, cs, vt, nt, ct, dit, d, vs_proj, is, it,
                                    is_proj, residual_geometric,
                                    sq_residual_geometric, residual_photometric,
                                    sq_residual_photometric, total, residual>>)
             IN  IF failure # "" THEN Results(Thrown(op, failure))
                 ELSE {Result(Double(op, FALSE, residual.data,
                                     sqrt_lambda_geometric.den
                                         * sqrt_lambda_geometric.den),
                              WriteOf(total))}

Colored_ComputeTransformation(src, tgt, c) ==
    LET op == "Colored_Transformation"
    IN  IF Colored_MissingAttribute(src, tgt)
        THEN Results({Error(op, "MissingAttribute", "none")})
        ELSE Results(PoseToTransformation(
                 ComputePoseColoredICP(
                     op, GetPoints("source", src),
                     GetPointColors("source", src), GetPoints("target", tgt),
                     GetPointNormals("target", tgt),
                     GetPointColors("target", tgt),
                     GetPointAttr("target", tgt, "color_gradients"),
                     CorrTensor(c), kernel_, lambda_geometric_)))

-----------------------------------------------------------------------------
(* The inputs.  Two families: well-formed inputs of every geometry up to   *)
(* the bounds, and one geometry under every combination of dtypes,         *)
(* devices, missing or mis-sized attributes and mis-sized correspondences. *)

\* Source points [p: position, c: colour] and target points [p: position,
\* n: normal, c: colour, g: colour gradient] the clouds are made of.
SourcePoints ==
    {[p |-> <<1, 1, 0>>, c |-> <<3, 3, 3>>],
     [p |-> <<0, 2, 1>>, c |-> <<0, 3, 0>>]}

TargetPoints ==
    {[p |-> <<0, 0, 0>>, n |-> <<1, 1, 0>>, c |-> <<0, 0, 0>>, g |-> <<1, 0, 0>>],
     [p |-> <<1, 0, 1>>, n |-> <<0, 1, 2>>, c |-> <<3, 0, 0>>, g |-> <<0, 1, 0>>]}

Column(rows, f) == [i \in 1..Len(rows) |-> rows[i][f]]

SourceCloud(rows) ==
    [device |-> "CPU:0",
     attr |-> [k \in {"points", "colors"} |->
                  AttrTensor("Float32",
                             Column(rows, IF k = "points" THEN "p" ELSE "c"))]]

TargetCloud(rows) ==
    [device |-> "CPU:0",
     attr |-> [k \in {"points", "normals", "colors", "color_gradients"} |->
                  AttrTensor("Float32",
                             Column(rows, CASE k = "points" -> "p"
                                            [] k = "normals" -> "n"
                                            [] k = "colors" -> "c"
                                            [] OTHER -> "g"))]]

Correspondences(data) ==
    [dtype |-> "Int64", device |-> "CPU:0", data |-> data]

GeometryInit ==
    \E srows \in SeqsUpTo(SourcePoints, MaxSrc) :
    \E trows \in SeqsUpTo(TargetPoints, MaxTgt) :
    \E data \in [1..Len(srows) -> -1..(Len(trows) - 1)] :
        /\ source = SourceCloud(srows)
        /\ target = TargetCloud(trows)
        /\ corr = Correspondences(data)

\* The one geometry of the second family.
FixedSource ==
    <<[p |-> <<1, 1, 0>>, c |-> <<3, 3, 3>>], [p |-> <<0, 2, 1>>, c |-> <<0, 3, 0>>]>>

FixedTarget ==
    <<[p |-> <<0, 0, 0>>, n |-> <<1, 1, 0>>, c |-> <<0, 0, 0>>, g |-> <<1, 0, 0>>],
      [p |-> <<1, 0, 1>>, n |-> <<0, 1, 2>>, c |-> <<3, 0, 0>>, g |-> <<0, 1, 0>>]>>

ExtraRow == <<1, 2, 0>>

\* An optional attribute: absent, right, of the other float dtype, one row
\* too long or one row too short.
Variants == {"absent", "Float32", "Float64", "long", "short"}

Variant(v, data) ==
    CASE v = "long" -> AttrTensor("Float32", Append(data, ExtraRow))
      [] v = "short" -> AttrTensor("Float32", Tail(data))
      [] OTHER -> AttrTensor(v, data)

Floats == {"Float32", "Float64"}
Devices == {"CPU:0", "CUDA:0"}

\* Correspondences of the fixed geometry: right, too short, too long with a
\* sentinel at the end, too long with an index at the end.
FixedCorrespondences == {<<1, 0>>, <<0>>, <<1, 0, -1>>, <<1, 0, 1>>}

Optional(keys, v) == {k \in keys : v[k] # "absent"}

\* The number of places at which an input of the second family departs from
\* a well-formed Float32 / Int64 / CPU:0 input.
Departures(sdtype, tdtype, scolors, tv, tdevice, cdevice, cdtype, data) ==
    Cardinality({k \in DOMAIN tv : tv[k] # "Float32"})
    + (IF sdtype # "Float32" THEN 1 ELSE 0)
    + (IF tdtype # "Float32" THEN 1 ELSE 0)
    + (IF scolors # "Float32" THEN 1 ELSE 0)
    + (IF tdevice # "CPU:0" THEN 1 ELSE 0)
    + (IF cdevice # "CPU:0" THEN 1 ELSE 0)
    + (IF cdtype # "Int64" THEN 1 ELSE 0)
    + (IF data # <<1, 0>> THEN 1 ELSE 0)

ValidationInit ==
    \E sdtype \in Floats, tdtype \in Floats, scolors \in Variants :
    \E tv \in [{"normals", "colors", "color_gradients"} -> Variants] :
    \E tdevice \in Devices, cdevice \in Devices :
    \E cdtype \in {"Int64", "Int32"}, data \in FixedCorrespondences :
        /\ Departures(sdtype, tdtype, scolors, tv, tdevice, cdevice, cdtype,
                      data) <= MaxDepartures
        /\ source =
             [device |-> "CPU:0",
              attr |-> [k \in {"points"}
                              \cup (IF scolors = "absent" THEN {}
                                    ELSE {"colors"}) |->
                           IF k = "points"
                           THEN AttrTensor(sdtype, Column(FixedSource, "p"))
                           ELSE Variant(scolors, Column(FixedSource, "c"))]]
        /\ target =
             [device |-> tdevice,
              attr |-> [k \in {"points"} \cup Optional(DOMAIN tv, tv) |->
                           CASE k = "points" ->
                                    AttrTensor(tdtype, Column(FixedTarget, "p"))
                             [] k = "normals" ->
                                    Variant(tv[k], Column(FixedTarget, "n"))
                             [] k = "colors" ->
                                    Variant(tv[k], Column(FixedTarget, "c"))
                             [] OTHER ->
                                    Variant(tv[k], Column(FixedTarget, "g"))]]
        /\ corr = [dtype |-> cdtype, device |-> cdevice, data |-> data]

-----------------------------------------------------------------------------
(* The attribute store of a line set (LineSet.h).  A TensorMap is a        *)
(* function from the keys it holds to tensors.  A tensor is here its shape *)
(* and its device, which is all the store looks at: a setter shares the    *)
(* tensor it is given, and no operation of the store reads the data.       *)

\* Longest tensor given to a setter.
MaxLength == 1

\* The primary key of each map and one more key of each.
PointKeys == {"positions", "labels"}
LineKeys == {"indices", "colors"}

\* The tensors a caller passes: on the line set's device a 0-dimensional
\* one and N x 2 and N x 3 ones of every length up to the bound; on the
\* other device one tensor of each width.
Shapes == {<<>>} \cup {<<n, w>> : n \in 0..MaxLength, w \in {2, 3}}

OffDeviceShapes == {<<1, 2>>, <<1, 3>>}

Values ==
    {v \in [shape : Shapes, device : Devices] :
        v.device = "CPU:0" \/ v.shape \in OffDeviceShapes}

\* TensorMap, a std::unordered_map from key to tensor with a primary key.
EmptyMap == [k \in {} |-> 0]

Contains(m, key) == key \in DOMAIN m

\* m[key] = value
Assign(m, key, value) ==
    [k \in DOMAIN m \cup {key} |-> IF k = key THEN value ELSE m[k]]

Kept(m) == [result |-> "throw", attr |-> m]

Stored(m) == [result |-> "ok", attr |-> m]

\* TensorMap::Erase: the primary key cannot be deleted; a key that is not
\* there is not an error.
Erase(m, primary, key) ==
    IF key = primary THEN Kept(m)
    ELSE Stored([k \in DOMAIN m \ {key} |-> m[k]])

\* core::Tensor checks: AssertDevice and AssertShapeCompatible pass or
\* throw; GetLength throws on a 0-dimensional tensor.
AssertDevice(value, device) == value.device = device

AssertShapeCompatible(value, cols) == Rank(value) = 2 /\ value.shape[2] = cols

HasLength(t) == Rank(t) > 0

\* What a call was given and what came of it: "ok" for a void call that
\* returned, "true" / "false" for a query, "throw" for an exception.
Returned(op, key, device, result) ==
    [op |-> op, key |-> key, device |-> device, result |-> result]

NoReturn == Returned("none", "", "", "")

Bool(b) == IF b THEN "true" ELSE "false"

\* LineSet(device): an empty line set on the device.
LineSet(device) ==
    /\ device_ = device
    /\ point_attr_ = EmptyMap
    /\ line_attr_ = EmptyMap
    /\ ret = NoReturn

GetDevice == device_

\* The setters.  Each gives the outcome of the call and the map after it.
SetPointAttr_Unchecked(key, value) == Stored(Assign(point_attr_, key, value))

SetPointAttr(key, value) ==
    IF ~AssertDevice(value, device_) THEN Kept(point_attr_)
    ELSE Stored(Assign(point_attr_, key, value))

SetPointPositions(value) ==
    IF ~AssertShapeCompatible(value, 3) THEN Kept(point_attr_)
    ELSE SetPointAttr("positions", value)

SetLineAttr(key, value) ==
    IF ~AssertDevice(value, device_) THEN Kept(line_attr_)
    ELSE Stored(Assign(line_attr_, key, value))

SetLineIndices(value) ==
    IF ~AssertShapeCompatible(value, 2) THEN Kept(line_attr_)
    ELSE SetLineAttr("indices", value)

SetLineColors(value) ==
    IF ~AssertShapeCompatible(value, 3) THEN Kept(line_attr_)
    ELSE SetLineAttr("colors", value)

RemovePointAttr(key) == Erase(point_attr_, "positions", key)

RemoveLineAttr(key) == Erase(line_attr_, "indices", key)

\* The existence queries.  `a && b && c` evaluates left to right and stops
\* at the first false; GetPointAttr(key) is point_attr_.at(key), which
\* throws on a key that is not there.
HasPointAttr_AnyLength(key) ==
    IF ~Contains(point_attr_, key) THEN "false"
    ELSE IF ~HasLength(point_attr_[key]) THEN "throw"
    ELSE Bool(GetLength(point_attr_[key]) > 0)

HasPointAttr(key) ==
    IF ~Contains(point_attr_, key) THEN "false"
    ELSE IF ~HasLength(point_attr_[key]) THEN "throw"
    ELSE IF ~(GetLength(point_attr_[key]) > 0) THEN "false"
    ELSE IF ~Contains(point_attr_, "positions") THEN "throw"
    ELSE IF ~HasLength(point_attr_["positions"]) THEN "throw"
    ELSE Bool(GetLength(point_attr_[key])
              = GetLength(point_attr_["positions"]))

HasPointPositions == HasPointAttr("positions")

HasLineAttr(key) ==
    IF ~Contains(line_attr_, key) THEN "false"
    ELSE IF ~HasLength(line_attr_[key]) THEN "throw"
    ELSE IF ~(GetLength(line_attr_[key]) > 0) THEN "false"
    ELSE IF ~Contains(line_attr_, "indices") THEN "throw"
    ELSE IF ~HasLength(line_attr_["indices"]) THEN "throw"
    ELSE Bool(GetLength(line_attr_[key]) = GetLength(line_attr_["indices"]))

HasLineIndices == HasLineAttr("indices")

HasLineColors == HasLineAttr("colors")

\* !HasPointPositions()
IsEmpty ==
    CASE HasPointPositions = "true" -> "false"
      [] HasPointPositions = "false" -> "true"
      [] OTHER -> "throw"

Init ==
    /\ GeometryInit \/ ValidationInit
    /\ out = NoCall
    /\ appended = 0
    /\ LineSet("CPU:0")

-----------------------------------------------------------------------------
(* The operations.  A call leaves in `out` what it returned or threw, and   *)
(* in the inputs whatever its in-place operations wrote there.             *)

Return(r) ==
    /\ out' = r.out
    /\ source' = Written("source", source, r.write)
    /\ target' = Written("target", target, r.write)
    /\ corr' = CorrWritten(corr, r.write)
    /\ UNCHANGED appended
    /\ UNCHANGED lsvars

PointToPoint_ComputeRMSE ==
    \E r \in PtP_ComputeRMSE(source, target, corr) : Return(r)

PointToPoint_ComputeTransformation ==
    \E r \in PtP_ComputeTransformation(source, target, corr) : Return(r)

PointToPlane_ComputeRMSE ==
    \E r \in PtPl_ComputeRMSE(source, target, corr) : Return(r)

PointToPlane_ComputeTransformation ==
    \E r \in PtPl_ComputeTransformation(source, target, corr) : Return(r)

ColoredICP_ComputeRMSE ==
    \E r \in Colored_ComputeRMSE(source, target, corr) : Return(r)

ColoredICP_ComputeTransformation ==
    \E r \in Colored_ComputeTransformation(source, target, corr) : Return(r)

\* The caller appends to the source a point that has no correspondence: a
\* row in every attribute of the source and a sentinel in the
\* correspondences.
AppendUnmatched ==
    /\ Len(source.attr["points"].data) < MaxSrc
    /\ \E row \in SourcePoints :
           source' = [source EXCEPT !.attr =
                         [k \in DOMAIN source.attr |->
                             [source.attr[k] EXCEPT !.data =
                                 Append(@, IF k = "points" THEN row.p
                                           ELSE row.c)]]]
    /\ corr' = [corr EXCEPT !.data = Append(@, -1)]
    /\ out' = NoCall
    /\ appended' = appended + 1
    /\ UNCHANGED target
    /\ UNCHANGED lsvars

Next ==
    \/ PointToPoint_ComputeRMSE
    \/ PointToPoint_ComputeTransformation
    \/ PointToPlane_ComputeRMSE
    \/ PointToPlane_ComputeTransformation
    \/ ColoredICP_ComputeRMSE
    \/ ColoredICP_ComputeTransformation
    \/ AppendUnmatched

Spec == Init /\ [][Next]_vars

-----------------------------------------------------------------------------
(* The operations of the line set.  A call leaves in `ret` what it was     *)
(* given and what came of it.                                              *)

PointCall(op, key, device, r) ==
    /\ ret' = Returned(op, key, device, r.result)
    /\ point_attr_' = r.attr
    /\ UNCHANGED <<device_, line_attr_>>
    /\ UNCHANGED vars

LineCall(op, key, device, r) ==
    /\ ret' = Returned(op, key, device, r.result)
    /\ line_attr_' = r.attr
    /\ UNCHANGED <<device_, point_attr_>>
    /\ UNCHANGED vars

Query(op, key, result) ==
    /\ ret' = Returned(op, key, "", result)
    /\ UNCHANGED <<device_, point_attr_, line_attr_>>
    /\ UNCHANGED vars

LineSet_SetPointAttr ==
    \E key \in PointKeys, value \in Values :
        PointCall("SetPointAttr", key, value.device, SetPointAttr(key, value))

LineSet_SetPointPositions ==
    \E value \in Values :
        PointCall("SetPointPositions", "positions", value.device,
                  SetPointPositions(value))

LineSet_SetLineAttr ==
    \E key \in LineKeys, value \in Values :
        LineCall("SetLineAttr", key, value.device, SetLineAttr(key, value))

LineSet_SetLineIndices ==
    \E value \in Values :
        LineCall("SetLineIndices", "indices", value.device,
                 SetLineIndices(value))

LineSet_SetLineColors ==
    \E value \in Values :
        LineCall("SetLineColors", "colors", value.device, SetLineColors(value))

LineSet_RemovePointAttr ==
    \E key \in PointKeys :
        PointCall("RemovePointAttr", key, "", RemovePointAttr(key))

LineSet_RemoveLineAttr ==
    \E key \in LineKeys :
        LineCall("RemoveLineAttr", key, "", RemoveLineAttr(key))

LineSet_Clear ==
    /\ ret' = Returned("Clear", "", "", "ok")
    /\ point_attr_' = EmptyMap
    /\ line_attr_' = EmptyMap
    /\ UNCHANGED device_
    /\ UNCHANGED vars

LineSet_HasPointAttr ==
    \E key \in PointKeys : Query("HasPointAttr", key, HasPointAttr(key))

LineSet_HasPointPositions ==
    \E key \in {"positions"} : Query("HasPointPositions", key, HasPointPositions)

LineSet_HasLineAttr ==
    \E key \in LineKeys : Query("HasLineAttr", key, HasLineAttr(key))

LineSet_HasLineIndices ==
    \E key \in {"indices"} : Query("HasLineIndices", key, HasLineIndices)

LineSet_HasLineColors ==
    \E key \in {"colors"} : Query("HasLineColors", key, HasLineColors)

LineSet_IsEmpty ==
    \E key \in {"positions"} : Query("IsEmpty", key, IsEmpty)

\* A default-constructed line set, next to an estimator that is given empty
\* inputs and never called.
LineSetInit ==
    /\ source = SourceCloud(<<>>)
    /\ target = TargetCloud(<<>>)
    /\ corr = Correspondences(<<>>)
    /\ out = NoCall
    /\ appended = 0
    /\ LineSet("CPU:0")

LineSetNext ==
    \/ LineSet_SetPointAttr
    \/ LineSet_SetPointPositions
    \/ LineSet_SetLineAttr
    \/ LineSet_SetLineIndices
    \/ LineSet_SetLineColors
    \/ LineSet_RemovePointAttr
    \/ LineSet_RemoveLineAttr
    \/ LineSet_Clear
    \/ LineSet_HasPointAttr
    \/ LineSet_HasPointPositions
    \/ LineSet_HasLineAttr
    \/ LineSet_HasLineIndices
    \/ LineSet_HasLineColors
    \/ LineSet_IsEmpty

LineSetSpec == LineSetInit /\ [][LineSetNext]_<<vars, lsvars>>

-----------------------------------------------------------------------------
(* What the properties speak of.                                           *)

RMSEOps == {"PtP_RMSE", "PtPl_RMSE", "Colored_RMSE"}
Estimator(op) ==
    CASE op \in {"PtP_RMSE", "PtP_Transformation"} -> "PointToPoint"
      [] op \in {"PtPl_RMSE", "PtPl_Transformation"} -> "PointToPlane"
      [] OTHER -> "ColoredICP"

\* The optional attributes an estimator reads.
UsedOfSource(e) == IF e = "ColoredICP" THEN {"colors"} ELSE {}

UsedOfTarget(e) ==
    CASE e = "PointToPoint" -> {}
      [] e = "PointToPlane" -> {"normals"}
      [] OTHER -> {"normals", "colors", "color_gradients"}

SourceLength == Len(source.attr["points"].data)
TargetLength == Len(target.attr["points"].data)

AttributesOK(e) ==
    /\ \A k \in UsedOfSource(e) : PointCloud_HasPointAttr(source, k)
    /\ \A k \in UsedOfTarget(e) : PointCloud_HasPointAttr(target, k)

DevicesOK == source.device = target.device /\ corr.device = source.device

DtypesOK(e) ==
    /\ corr.dtype = "Int64"
    /\ target.attr["points"].dtype = source.attr["points"].dtype
    /\ \A k \in UsedOfSource(e) :
           source.attr[k].dtype = source.attr["points"].dtype
    /\ \A k \in UsedOfTarget(e) :
           target.attr[k].dtype = source.attr["points"].dtype

LengthOK == Len(corr.data) = SourceLength

InRange == \A i \in 1..Len(corr.data) : corr.data[i] \in -1..(TargetLength - 1)

\* The input passes every check the specification asks of estimator e.
Validated(e) ==
    /\ AttributesOK(e) /\ DevicesOK /\ DtypesOK(e) /\ LengthOK /\ InRange

ValidIndices == {i \in 1..Len(corr.data) : corr.data[i] # -1}

NValid == Cardinality(ValidIndices)

FailedBeforeWork(err) ==
    out.kind = "error" /\ out.err = err /\ out.work = "none"

Dot(a, b) == a[1] * b[1] + a[2] * b[2] + a[3] * b[3]

Minus(a, b) == <<a[1] - b[1], a[2] - b[2], a[3] - b[3]>>

\* Row i of an attribute of the source, and the row of an attribute of the
\* target that source point i corresponds to.
SourceRow(k, i) == source.attr[k].data[i]
MatchedRow(k, i) == target.attr[k].data[corr.data[i] + 1]

-----------------------------------------------------------------------------
\* C1: with no valid correspondence (every entry -1) on an otherwise valid
\* input, ComputeRMSE and ComputeTransformation of every estimator end in an
\* EmptyCorrespondenceError.
C1_EmptyCorrespondenceError ==
    (/\ out.op # "none" /\ Validated(Estimator(out.op))
     /\ Len(corr.data) > 0 /\ NValid = 0)
        => (out.kind = "error" /\ out.err = "EmptyCorrespondenceError")

\* C2: appending to the source of a valid input points that have no
\* correspondence changes neither the RMSE nor the transformation of any
\* estimator.
C2_SentinelExclusion ==
    [][appended' = appended + 1 =>
          /\ Validated("PointToPoint") =>
               /\ {r.out : r \in PtP_ComputeRMSE(source', target', corr')}
                    = {r.out : r \in PtP_ComputeRMSE(source, target, corr)}
               /\ {r.out : r \in
                       PtP_ComputeTransformation(source', target', corr')}
                    = {r.out : r \in
                          PtP_ComputeTransformation(source, target, corr)}
          /\ Validated("PointToPlane") =>
               /\ {r.out : r \in PtPl_ComputeRMSE(source', target', corr')}
                    = {r.out : r \in PtPl_ComputeRMSE(source, target, corr)}
               /\ {r.out : r \in
                       PtPl_ComputeTransformation(source', target', corr')}
                    = {r.out : r \in
                          PtPl_ComputeTransformation(source, target, corr)}
          /\ Validated("ColoredICP") =>
               /\ {r.out : r \in Colored_ComputeRMSE(source', target', corr')}
                    = {r.out : r \in Colored_ComputeRMSE(source, target, corr)}
               /\ {r.out : r \in
                       Colored_ComputeTransformation(source', target', corr')}
                    = {r.out : r \in
                          Colored_ComputeTransformation(source, target, corr)}
      ]_vars

\* An RMSE was returned for a source with an appended unmatched point.
C2_Witness ==
    /\ appended > 0 /\ NValid > 0
    /\ out.op = "PtP_RMSE" /\ out.kind = "value"

\* C3: PointToPlane without valid target normals, and ColoredICP without
\* valid source or target colors, target normals or target color_gradients,
\* fail in both operations before any gather, residual or kernel call.
C3_MissingAttributeFailsFirst ==
    (out.op # "none" /\ ~AttributesOK(Estimator(out.op)))
        => FailedBeforeWork("MissingAttribute")

\* ColoredICP was called on a target whose color_gradients are missing, and
\* PointToPlane on normals that are present but not valid.
C3_Witness ==
    \/ /\ out.op = "Colored_Transformation"
       /\ "color_gradients" \notin DOMAIN target.attr
    \/ /\ out.op = "PtPl_RMSE"
       /\ "normals" \in DOMAIN target.attr /\ ~HasPointNormals(target)

\* C4: on an input that is valid but for its devices, ComputeRMSE of every
\* estimator fails with a device mismatch before any numeric work.
C4_DeviceMismatchFailsFirst ==
    (/\ out.op \in RMSEOps
     /\ AttributesOK(Estimator(out.op)) /\ DtypesOK(Estimator(out.op))
     /\ LengthOK /\ InRange
     /\ ~DevicesOK)
        => FailedBeforeWork("DeviceMismatch")

\* C5: on an input that is valid but for its dtypes, ComputeRMSE of every
\* estimator fails with a dtype mismatch before any numeric work.
C5_DtypeMismatchFailsFirst ==
    (/\ out.op \in RMSEOps
     /\ AttributesOK(Estimator(out.op)) /\ DevicesOK
     /\ LengthOK /\ InRange
     /\ ~DtypesOK(Estimator(out.op)))
        => FailedBeforeWork("DtypeMismatch")

\* C6: on an input that is valid but for the length of the correspondences,
\* ComputeRMSE of every estimator fails with a dimension error before any
\* gather.
C6_LengthMismatchFailsFirst ==
    (/\ out.op \in RMSEOps
     /\ AttributesOK(Estimator(out.op)) /\ DevicesOK
     /\ DtypesOK(Estimator(out.op))
     /\ ~LengthOK)
        => FailedBeforeWork("DimensionError")

\* C7: a call of any estimator, whether it returns or fails, leaves the
\* source, the target and the correspondences as they were.
C7_InputsUnchanged ==
    [][out'.op # "none" =>
          source' = source /\ target' = target /\ corr' = corr]_vars

\* PointToPlane's ComputeRMSE, with its two in-place multiplications, has
\* returned a value.
C7_Witness == out.op = "PtPl_RMSE" /\ out.kind = "value" /\ NValid > 1

\* C8: PointToPoint's ComputeRMSE on a valid input with a correspondence is
\* the root of the summed squared distances of the matched pairs over the
\* number of matched pairs.
C8_PointToPointRMSE ==
    (out.op = "PtP_RMSE" /\ Validated("PointToPoint") /\ NValid >= 1)
        => LET SquaredDistance(i) ==
                   Dot(Minus(SourceRow("points", i), MatchedRow("points", i)),
                       Minus(SourceRow("points", i), MatchedRow("points", i)))
           IN  /\ out.kind = "value" /\ out.root
               /\ out.num = SeqSum([i \in 1..Len(corr.data) |->
                                       IF corr.data[i] = -1 THEN 0
                                       ELSE SquaredDistance(i)])
               /\ out.den = NValid

\* An RMSE of a source with an unmatched point, a matched point off its
\* target, and a target with an unmatched point.
C8_Witness ==
    /\ out.op = "PtP_RMSE" /\ out.kind = "value" /\ out.num > 0
    /\ NValid >= 1 /\ NValid < SourceLength
    /\ \E j \in 0..(TargetLength - 1) :
           \A i \in 1..Len(corr.data) : corr.data[i] # j

\* C9: PointToPlane's ComputeRMSE on a valid input with a correspondence is
\* the root of the summed squares of n . (p - q) over the number of matched
\* pairs.
C9_PointToPlaneRMSE ==
    (out.op = "PtPl_RMSE" /\ Validated("PointToPlane") /\ NValid >= 1)
        => LET Along(i) ==
                   Dot(MatchedRow("normals", i),
                       Minus(SourceRow("points", i), MatchedRow("points", i)))
               SquaredAlong(i) == Along(i) * Along(i)
           IN  /\ out.kind = "value" /\ out.root
               /\ out.num = SeqSum([i \in 1..Len(corr.data) |->
                                       IF corr.data[i] = -1 THEN 0
                                       ELSE SquaredAlong(i)])
               /\ out.den = NValid

\* C10: ColoredICP's ComputeRMSE on a valid input with a correspondence
\* returns the sum over the matched pairs of lambda * d^2
\* + (1 - lambda) * (is - is_proj)^2, undivided and without a root.
C10_ColoredRMSE ==
    (out.op = "Colored_RMSE" /\ Validated("ColoredICP") /\ NValid >= 1)
        => LET lambda == lambda_geometric_
               Intensity(c) == (c[1] + c[2] + c[3]) \div 3
               D(i) ==
                   Dot(Minus(SourceRow("points", i), MatchedRow("points", i)),
                       MatchedRow("normals", i))
               Projected(i) ==
                   LET n == MatchedRow("normals", i)
                       p == SourceRow("points", i)
                   IN  <<p[1] - D(i) * n[1], p[2] - D(i) * n[2],
                         p[3] - D(i) * n[3]>>
               ProjectedIntensity(i) ==
                   Dot(MatchedRow("color_gradients", i),
                       Minus(Projected(i), MatchedRow("points", i)))
                   + Intensity(MatchedRow("colors", i))
               Photometric(i) ==
                   Intensity(SourceRow("colors", i)) - ProjectedIntensity(i)
               Term(i) ==
                   lambda.num * D(i) * D(i)
                   + (lambda.den - lambda.num) * Photometric(i) * Photometric(i)
           IN  /\ out.kind = "value" /\ ~out.root
               /\ out.num * lambda.den
                    = out.den * SeqSum([i \in 1..Len(corr.data) |->
                                           IF corr.data[i] = -1 THEN 0
                                           ELSE Term(i)])

-----------------------------------------------------------------------------
(* The attribute store of the line set.                                    *)

\* The tensor under `key` in the map m has a length, which is positive and
\* is the length of the tensor under the primary key.
ValidIn(m, primary, key) ==
    /\ key \in DOMAIN m
    /\ Len(m[key].shape) > 0
    /\ m[key].shape[1] > 0
    /\ Len(m[primary].shape) > 0
    /\ m[key].shape[1] = m[primary].shape[1]

\* C11: in every state where "positions" is present, HasPointAttr(key) is
\* true if and only if key is present in point_attr_, its length is greater
\* than 0 and its length is the length of "positions"; in every state where
\* "indices" is present, HasLineAttr(key) is true if and only if key is
\* present in line_attr_, its length is greater than 0 and its length is
\* the length of "indices".
C11_AttributeValidity ==
    /\ "positions" \in DOMAIN point_attr_ =>
           \A key \in PointKeys :
               (HasPointAttr(key) = "true")
                   <=> ValidIn(point_attr_, "positions", key)
    /\ "indices" \in DOMAIN line_attr_ =>
           \A key \in LineKeys :
               (HasLineAttr(key) = "true")
                   <=> ValidIn(line_attr_, "indices", key)

\* HasPointAttr("labels") has returned false for a non-empty "labels" whose
\* length is not the length of "positions".
C11_Witness ==
    /\ ret.op = "HasPointAttr"
    /\ ret.key = "labels"
    /\ ret.result = "false"
    /\ {"positions", "labels"} \subseteq DOMAIN point_attr_
    /\ Len(point_attr_["positions"].shape) > 0
    /\ Len(point_attr_["labels"].shape) > 0
    /\ point_attr_["labels"].shape[1] > 0
    /\ point_attr_["labels"].shape[1] # point_attr_["positions"].shape[1]

Setters ==
    {"SetPointAttr", "SetPointPositions", "SetLineAttr", "SetLineIndices",
     "SetLineColors"}

AllOnDevice ==
    /\ \A key \in DOMAIN point_attr_ : point_attr_[key].device = GetDevice
    /\ \A key \in DOMAIN line_attr_ : line_attr_[key].device = GetDevice

\* C12: after any sequence of SetPointAttr, SetPointPositions, SetLineAttr,
\* SetLineIndices, SetLineColors, RemovePointAttr, RemoveLineAttr and Clear
\* calls, every tensor stored in point_attr_ and line_attr_ is on the device
\* GetDevice() returns; a setter given a tensor on another device fails and
\* leaves both maps unchanged.
C12_DeviceConsistency ==
    /\ []AllOnDevice
    /\ [][ret'.op \in Setters /\ ret'.device # device_
              => /\ ret'.result = "throw"
                 /\ point_attr_' = point_attr_
                 /\ line_attr_' = line_attr_]_<<vars, lsvars>>

\* SetPointAttr has been given a tensor on another device, on a line set
\* that holds points and lines.
C12_Witness ==
    /\ ret.op = "SetPointAttr"
    /\ ret.device # device_
    /\ ret.result = "throw"
    /\ "positions" \in DOMAIN point_attr_
    /\ "indices" \in DOMAIN line_attr_

IsNx(t, cols) == Len(t.shape) = 2 /\ t.shape[2] = cols

\* C13: after any sequence of the public setters (SetPointPositions,
\* SetLineIndices, SetLineColors and the generic SetPointAttr / SetLineAttr
\* with any key), whenever "positions" is present it has shape N x 3,
\* whenever "indices" is present it has shape N x 2, and whenever line
\* "colors" is present it has shape N x 3.
C13_DefaultAttributeShapes ==
    /\ "positions" \in DOMAIN point_attr_ => IsNx(point_attr_["positions"], 3)
    /\ "indices" \in DOMAIN line_attr_ => IsNx(line_attr_["indices"], 2)
    /\ "colors" \in DOMAIN line_attr_ => IsNx(line_attr_["colors"], 3)

\* Every stored tensor has at least one dimension.
AllHaveLength ==
    /\ \A key \in DOMAIN point_attr_ : HasLength(point_attr_[key])
    /\ \A key \in DOMAIN line_attr_ : HasLength(line_attr_[key])

\* C14: in every state reachable by Clear, Set*Attr and Remove*Attr calls,
\* HasPointAttr(key), HasLineAttr(key), HasPointPositions(),
\* HasLineIndices(), HasLineColors() and IsEmpty() return a boolean without
\* throwing; a non-empty tensor under a key other than "positions" in a
\* store without "positions" makes HasPointAttr of that key false; and
\* IsEmpty() is true immediately after Clear().  Stated over the stores
\* whose tensors all have a length.
C14_QueriesTotal ==
    AllHaveLength =>
        /\ \A key \in PointKeys : HasPointAttr(key) \in {"true", "false"}
        /\ \A key \in LineKeys : HasLineAttr(key) \in {"true", "false"}
        /\ HasPointPositions \in {"true", "false"}
        /\ HasLineIndices \in {"true", "false"}
        /\ HasLineColors \in {"true", "false"}
        /\ IsEmpty \in {"true", "false"}
        /\ \A key \in PointKeys \ {"positions"} :
               /\ key \in DOMAIN point_attr_
               /\ "positions" \notin DOMAIN point_attr_
               /\ point_attr_[key].shape[1] > 0
               => HasPointAttr(key) = "false"
        /\ ret.op = "Clear" => IsEmpty = "true"

====
